---- MODULE Spec2Model ----
(***************************************************************************)
(* The MCP host of src/src/todo_client.py: the interactive shell, the      *)
(* multi-pass orchestration loop process_with_llm, the adapter call_tool   *)
(* and the translation convert_to_anthropic_tools.  The model API and the  *)
(* tool server are the environment: every reply, result or exception they  *)
(* can hand back is an input of the action that receives it.               *)
(***************************************************************************)
EXTENDS Integers, Sequences, FiniteSets, TLC

VARIABLES
    pc,              \* where the host is: "main", "start", "input", "llm", "tools",
                     \* "closed", "exited"
    session,         \* TodoMCPClient.session: "none" or "open"
    available_tools, \* TodoMCPClient.available_tools
    conversation_history, \* TodoChatClient.conversation_history
    tools,           \* process_with_llm: the local tools
    messages,        \* process_with_llm: the local messages
    iteration,       \* process_with_llm: the loop variable of the for loop
    tool_calls,      \* process_with_llm: the local tool_calls of this pass
    tc,              \* position in tool_calls of the block being executed
    response,        \* what process_with_llm returned to chat_loop
    sys_exit,        \* the status main handed to sys.exit, NotCalled before that
    llm_calls,       \* history: model calls issued for the current request
    llm_result,      \* history: how the latest model call of the request ended
    invoked,         \* history: the call_tool calls of this pass and how each ended
    results,         \* history: tool-result messages appended in this pass
    faults,          \* history: adapter calls of this request that did not end plainly
    earlier,         \* history: did process_with_llm return before in this session
    closes,          \* history: how often TodoMCPClient.close ran
    offered,         \* history: the tools arguments the model calls of the session got
    translations,    \* history: the latest two calls of convert_to_anthropic_tools
    sent,            \* history: the messages the latest answered model call was given
    in_flight,       \* history: the awaited calls that have not come back
    api_key,         \* main: the local api_key, what os.getenv returned
    printed,         \* history: the error main or chat_loop's handler printed since
                     \* the last request began
    ending,          \* history: how start() ended
    server,          \* the server script running: "good" or "bad"
    todos,           \* TodoStore.todos of the server
    next_id,         \* TodoStore._next_id of the server
    tool_called,     \* history: the latest tool function called on the server
    tool_return,     \* history: what the latest tool function of the server returned
    issued,          \* history: the ids create returned, in the order of the calls
    deleted,         \* history: the ids of the todos delete removed
    peer             \* a second server process, running bad_todo_server.py: its
                     \* TodoStore and what its latest tool function returned

\* the state of the server process
storeVars == <<server, todos, next_id, tool_called, tool_return, issued, deleted, peer>>

\* the state of the host process
hostVars == <<pc, session, available_tools, conversation_history, tools, messages,
              iteration, tool_calls, tc, response, sys_exit, api_key, llm_calls,
              llm_result, invoked, results, faults, earlier, closes, offered, translations,
              sent, in_flight, printed, ending>>

\* the state of the host that only main and the shell change
shellVars == <<conversation_history, sys_exit, api_key, printed>>

vars == <<pc, session, available_tools, tools, messages, iteration, tool_calls, tc,
          response, llm_calls, llm_result, invoked, results, faults, earlier, closes, offered,
          translations, sent, in_flight, ending, shellVars, storeVars>>

(***************************************************************************)
(* Bounds of the model.                                                    *)
(***************************************************************************)
\* Within one request at most MaxFaults adapter calls end otherwise than by
\* returning the tool's own result: by an exception or by an odd result.
MaxFaults == 1

\* The server offers at most MaxTools tools where any descriptors are tried.
MaxTools == 2

\* The server creates at most MaxTodos todos.
MaxTodos == 2

(***************************************************************************)
(* Python strings.  A string is a TLA+ string; Chars gives the characters  *)
(* of the exception texts, which is what str.lower and the substring test  *)
(* of process_with_llm work on.                                            *)
(***************************************************************************)
ExceptionTexts ==
    {"Connection error.", "Request timed out.", "SSL handshake failed", "bad Certificate", "classless host", "Overloaded"}

Chars(s) ==
    CASE
           s = "Connection error." -> <<"C", "o", "n", "n", "e", "c", "t", "i", "o", "n", " ", "e", "r", "r", "o", "r", ".">>
        [] s = "Request timed out." -> <<"R", "e", "q", "u", "e", "s", "t", " ", "t", "i", "m", "e", "d", " ", "o", "u", "t", ".">>
        [] s = "SSL handshake failed" -> <<"S", "S", "L", " ", "h", "a", "n", "d", "s", "h", "a", "k", "e", " ", "f", "a", "i", "l", "e", "d">>
        [] s = "bad Certificate" -> <<"b", "a", "d", " ", "C", "e", "r", "t", "i", "f", "i", "c", "a", "t", "e">>
        [] s = "classless host" -> <<"c", "l", "a", "s", "s", "l", "e", "s", "s", " ", "h", "o", "s", "t">>
        [] s = "certificate" -> <<"c", "e", "r", "t", "i", "f", "i", "c", "a", "t", "e">>
        [] s = "ssl" -> <<"s", "s", "l">>
        [] s = "Overloaded" -> <<"O", "v", "e", "r", "l", "o", "a", "d", "e", "d">>

Upper == <<"A", "B", "C", "D", "E", "F", "G", "H", "I", "J", "K", "L", "M",
           "N", "O", "P", "Q", "R", "S", "T", "U", "V", "W", "X", "Y", "Z">>
Lower == <<"a", "b", "c", "d", "e", "f", "g", "h", "i", "j", "k", "l", "m",
           "n", "o", "p", "q", "r", "s", "t", "u", "v", "w", "x", "y", "z">>

\* str.lower on one character
LowerChar(c) ==
    IF \E i \in 1..Len(Upper) : Upper[i] = c
    THEN Lower[CHOOSE i \in 1..Len(Upper) : Upper[i] = c]
    ELSE c

\* str.lower on the characters of a string
LowerChars(cs) == [i \in 1..Len(cs) |-> LowerChar(cs[i])]

\* pat in cs (Python's substring test)
Contains(cs, pat) ==
    \E i \in 1..(Len(cs) - Len(pat) + 1) : SubSeq(cs, i, i + Len(pat) - 1) = pat

(***************************************************************************)
(* JSON.  A JSON value is a TLA+ value; a JSON text is a record that       *)
(* keeps how it was written: json.loads reads the value of a well-formed   *)
(* text and raises on any other, json.dumps writes in its default layout.  *)
(***************************************************************************)
EmptyObject == [k \in {} |-> 0]

JsonDecodeError == "Expecting value: line 1 column 1 (char 0)"

\* does json.loads(text) return
json_loads_ok(text) == text.layout # "malformed"

\* json.loads(text), where it returns
json_loads(text) == text.val

\* json.dumps(value)
json_dumps(value) == [layout |-> "dumps", val |-> value]

(***************************************************************************)
(* The tool descriptors of the server and their translation.               *)
(***************************************************************************)
\* hasattr(obj, attr)
hasattr(obj, attr) == attr \in DOMAIN obj

\* a Python dict / list as a tagged value, so that {} and [] differ
Dict(f) == [py |-> "dict", v |-> f]
List(q) == [py |-> "list", v |-> q]
None == [py |-> "None", v |-> <<>>]

\* isinstance(x, dict)
isdict(x) == x.py = "dict"

\* d.get(key, default)
dict_get(d, key, default) == IF key \in DOMAIN d.v THEN d.v[key] ELSE default

\* AnthropicTool with {} as the default of required as well
AnthropicTool_RequiredDefaultsToDict(tool) ==
    LET params == IF hasattr(tool, "inputSchema") THEN tool.inputSchema ELSE Dict(EmptyObject)
    IN  [name |-> tool.name,
         description |-> IF hasattr(tool, "description") THEN tool.description ELSE "",
         input_schema |->
            [type |-> "object",
             properties |-> IF isdict(params)
                            THEN dict_get(params, "properties", Dict(EmptyObject))
                            ELSE Dict(EmptyObject),
             required |-> IF isdict(params)
                          THEN dict_get(params, "required", Dict(EmptyObject))
                          ELSE Dict(EmptyObject)]]

AnthropicTool(tool) ==
    LET params == IF hasattr(tool, "inputSchema") THEN tool.inputSchema ELSE Dict(EmptyObject)
    IN  [name |-> tool.name,
         description |-> IF hasattr(tool, "description") THEN tool.description ELSE "",
         input_schema |->
            [type |-> "object",
             properties |-> IF isdict(params)
                            THEN dict_get(params, "properties", Dict(EmptyObject))
                            ELSE Dict(EmptyObject),
             required |-> IF isdict(params)
                          THEN dict_get(params, "required", List(<<>>))
                          ELSE List(<<>>)]]

convert_to_anthropic_tools(mcp_tools) ==
    [i \in 1..Len(mcp_tools) |-> AnthropicTool(mcp_tools[i])]

\* what list_tools returns for good_todo_server.py: one descriptor per @mcp.tool()
GoodServerTools ==
    << [name |-> "create_todo",
        description |-> "Add a new task to the todo list with specified details.",
        inputSchema |-> Dict([type |-> "object",
                              properties |-> Dict([title |-> "string", description |-> "string",
                                                   priority |-> "string"]),
                              required |-> List(<<"title">>)])],
       [name |-> "list_todos",
        description |-> "Retrieve todos filtered by completion status.",
        inputSchema |-> Dict([type |-> "object",
                              properties |-> Dict([status |-> "string"])])],
       [name |-> "update_todo",
        description |-> "Modify an existing todo's properties or mark it complete.",
        inputSchema |-> Dict([type |-> "object",
                              properties |-> Dict([todo_id |-> "integer", title |-> "string",
                                                   description |-> "string",
                                                   priority |-> "string",
                                                   completed |-> "boolean"]),
                              required |-> List(<<"todo_id">>)])],
       [name |-> "delete_todo",
        description |-> "Remove a task from the list permanently.",
        inputSchema |-> Dict([type |-> "object",
                              properties |-> Dict([todo_id |-> "integer"]),
                              required |-> List(<<"todo_id">>)])] >>

\* Descriptors as list_tools may hand them over, by what they carry: a
\* description that is missing, None or a text, and an inputSchema that is
\* missing, None, a list, or a dict with or without properties and required.
DescriptionChoices == {"absent", "None", "text"}
SchemaChoices == {"absent", "None", "list", "empty", "properties", "required", "both"}

DescriptionPart(choice) ==
    CASE choice = "absent" -> EmptyObject
      [] choice = "None" -> [description |-> None]
      [] OTHER -> [description |-> "Create."]

SchemaPart(choice) ==
    LET properties == Dict([title |-> "string", priority |-> "string"])
        required == List(<<"title">>)
    IN  CASE choice = "absent" -> EmptyObject
          [] choice = "None" -> [inputSchema |-> None]
          [] choice = "list" -> [inputSchema |-> List(<<"title">>)]
          [] choice = "empty" -> [inputSchema |-> Dict(EmptyObject)]
          [] choice = "properties" ->
                [inputSchema |-> Dict([type |-> "object", properties |-> properties])]
          [] choice = "required" ->
                [inputSchema |-> Dict([type |-> "object", required |-> required])]
          [] OTHER ->
                [inputSchema |-> Dict([type |-> "object", properties |-> properties,
                                       required |-> required])]

\* the descriptor of the tool named after its schema choice
Descriptor(choice) ==
    [name |-> "tool_" \o choice[2]] @@ DescriptionPart(choice[1]) @@ SchemaPart(choice[2])

\* lists of at most MaxTools descriptors, by their choices
DescriptorLists ==
    UNION {[1..n -> DescriptionChoices \X SchemaChoices] : n \in 0..MaxTools}

Discovered(choices) == [i \in DOMAIN choices |-> Descriptor(choices[i])]

(***************************************************************************)
(* The environment of process_with_llm: what the model API and the adapter *)
(* can hand back.                                                          *)
(***************************************************************************)
TextBlock(text) == [type |-> "text", text |-> text]
ToolUseBlock(id, name, input) == [type |-> "tool_use", id |-> id, name |-> name, input |-> input]

\* The API gives every ToolUse block an id of its own: here the pass and the
\* block's place in the reply.
ToolUseId(pass, place) == pass * 10 + place

\* replies without a ToolUse block
FinalReplies ==
    { <<>>,
      <<TextBlock("I've added 'buy milk' to your list.")>>,
      <<TextBlock("Todo 99 was not found."), TextBlock("Anything else?")>> }

\* The replies with ToolUse blocks the model gives in pass `pass` of a request:
\* one block when asked for one task, two blocks around or after a text when
\* asked for two, and the two shapes in turn when asked for a series.
ToolReply(user_input, pass) ==
    LET one == <<ToolUseBlock(ToolUseId(pass, 1), "create_todo", [title |-> "buy milk"])>>
        two == <<TextBlock("Let me check."),
                 ToolUseBlock(ToolUseId(pass, 2), "delete_todo", [todo_id |-> 99]),
                 ToolUseBlock(ToolUseId(pass, 3), "list_todos", [status |-> "all"])>>
        mix == <<ToolUseBlock(ToolUseId(pass, 1), "update_todo",
                              [todo_id |-> 1, completed |-> TRUE]),
                 TextBlock("and then"),
                 ToolUseBlock(ToolUseId(pass, 3), "delete_todo", [todo_id |-> 99])>>
    IN  CASE user_input = "Add a todo to buy milk" -> one
          [] user_input = "delete todo 99" -> two
          [] OTHER -> IF pass % 2 = 0 THEN mix ELSE one

\* exceptions messages.create raises; the classes are those of the anthropic
\* package, APITimeoutError being a subclass of APIConnectionError
ModelExceptions ==
    [cls : {"APIConnectionError"}, msg : ExceptionTexts]
        \cup {[cls |-> "APITimeoutError", msg |-> "Request timed out."]}
        \cup [cls : {"AuthenticationError", "RateLimitError"},
              msg : {"SSL handshake failed", "Overloaded"}]

\* isinstance(e, anthropic.APIConnectionError)
IsConnectionError(e) == e.cls \in {"APIConnectionError", "APITimeoutError"}

\* isinstance(e, anthropic.AuthenticationError)
IsAuthenticationError(e) == e.cls = "AuthenticationError"

\* the text the server writes for a tool's return value (FastMCP indents it)
ServerText(value) == [layout |-> "indent", val |-> value]

TodoCreated == [success |-> TRUE, todo |-> [id |-> 1, title |-> "buy milk", completed |-> FALSE]]
TodoUpdated == [success |-> TRUE, todo |-> [id |-> 1, title |-> "buy milk", completed |-> TRUE]]
TodoNotFound == [success |-> FALSE, error |-> "Todo 99 not found"]
TodoList == [todos |-> <<>>, count |-> 0, total |-> 0]

\* what the tool called by tool_call returns on the server
ToolValue(tool_call) ==
    CASE tool_call.name = "create_todo" -> TodoCreated
      [] tool_call.name = "update_todo" -> TodoUpdated
      [] tool_call.name = "delete_todo" -> TodoNotFound
      [] OTHER -> TodoList

\* the plain result of call_tool: one text block holding the tool's return value
PlainResult(tool_call) == [content |-> <<TextBlock(ServerText(ToolValue(tool_call)))>>]

\* the other results call_tool can return
OtherResults ==
    { [content |-> <<TextBlock(ServerText(TodoList)), TextBlock(ServerText(TodoCreated))>>],
      [content |-> <<>>],
      [isError |-> FALSE],
      [content |-> <<TextBlock([layout |-> "malformed", val |-> "Error executing tool"])>>],
      [content |-> <<[type |-> "image", data |-> "iVBOR"]>>] }

\* exceptions the transport raises out of session.call_tool
TransportFaults == {"Connection reset by peer"}

(***************************************************************************)
(* process_with_llm.                                                       *)
(***************************************************************************)
max_iterations == 10

NoResponse == "(nothing returned yet)"
NoCall == [raised |-> FALSE, content |-> <<[type |-> "none"]>>]

SslErrorText == "SSL Certificate Error: Unable to connect to Claude API."
ConnectionErrorText == "Connection Error: Unable to reach Claude API."
AuthenticationErrorText == "Authentication Error: Invalid API key."
CompletedText == "I completed the task."
MoreTimeText ==
    "I need more time to complete this request. Please try breaking it into smaller steps."

\* ModelFailureText testing the text as it is, without str.lower
ModelFailureText_CaseSensitive(e) ==
    IF IsConnectionError(e)
    THEN LET error_msg == Chars(e.msg)
         IN  IF Contains(error_msg, Chars("certificate")) \/ Contains(error_msg, Chars("ssl"))
             THEN SslErrorText
             ELSE ConnectionErrorText
    ELSE IF IsAuthenticationError(e)
    THEN AuthenticationErrorText
    ELSE "Error: " \o e.msg

\* the handlers of the outer try, in the order Python tries them
ModelFailureText(e) ==
    IF IsConnectionError(e)
    THEN LET error_msg == LowerChars(Chars(e.msg))
         IN  IF Contains(error_msg, Chars("certificate")) \/ Contains(error_msg, Chars("ssl"))
             THEN SslErrorText
             ELSE ConnectionErrorText
    ELSE IF IsAuthenticationError(e)
    THEN AuthenticationErrorText
    ELSE "Error: " \o e.msg

\* [block for block in content if block.type == kind]
BlocksOfType(content, kind) == SelectSeq(content, LAMBDA block : block.type = kind)

\* FinalAnswer taking the last text block instead of the first
FinalAnswer_LastText(content) ==
    LET text_blocks == BlocksOfType(content, "text")
    IN  IF text_blocks # <<>> THEN text_blocks[Len(text_blocks)].text ELSE CompletedText

\* FinalAnswer without the fallback: the empty string for a reply without text
FinalAnswer_NoFallback(content) ==
    LET text_blocks == BlocksOfType(content, "text")
    IN  IF text_blocks # <<>> THEN text_blocks[1].text ELSE ""

\* the value returned for a reply without tool calls
FinalAnswer(content) ==
    LET text_blocks == BlocksOfType(content, "text")
    IN  IF text_blocks # <<>> THEN text_blocks[1].text ELSE CompletedText

AssistantMessage(content) == [role |-> "assistant", content |-> content]

ToolResultMessage(tool_id, result_data) ==
    [role |-> "user",
     content |-> <<[type |-> "tool_result", tool_use_id |-> tool_id,
                    content |-> json_dumps(result_data)]>>]

\* ToolErrorMessage without the is_error flag
ToolErrorMessage_NoFlag(tool_id, e) ==
    [role |-> "user",
     content |-> <<[type |-> "tool_result", tool_use_id |-> tool_id,
                    content |-> "Error: " \o e]>>]

ToolErrorMessage(tool_id, e) ==
    [role |-> "user",
     content |-> <<[type |-> "tool_result", tool_use_id |-> tool_id,
                    content |-> "Error: " \o e, is_error |-> TRUE]>>]

\* MessageForResult treating a payload with success = false as an error
MessageForResult_FlagsFailure(tool_id, result) ==
    IF hasattr(result, "content") /\ result.content # <<>>
    THEN IF ~hasattr(result.content[1], "text")
         THEN ToolErrorMessage(tool_id, "'ImageContent' object has no attribute 'text'")
         ELSE IF ~json_loads_ok(result.content[1].text)
         THEN ToolErrorMessage(tool_id, JsonDecodeError)
         ELSE LET result_data == json_loads(result.content[1].text)
              IN  IF "success" \in DOMAIN result_data /\ ~result_data.success
                  THEN ToolErrorMessage(tool_id, result_data.error)
                  ELSE ToolResultMessage(tool_id, result_data)
    ELSE ToolResultMessage(tool_id, EmptyObject)

\* MessageForResult reading the last content block instead of the first
MessageForResult_LastBlock(tool_id, result) ==
    IF hasattr(result, "content")
    THEN IF result.content # <<>>
         THEN LET last == result.content[Len(result.content)]
              IN  IF ~hasattr(last, "text")
                  THEN ToolErrorMessage(tool_id, "'ImageContent' object has no attribute 'text'")
                  ELSE IF ~json_loads_ok(last.text)
                  THEN ToolErrorMessage(tool_id, JsonDecodeError)
                  ELSE ToolResultMessage(tool_id, json_loads(last.text))
         ELSE ToolResultMessage(tool_id, EmptyObject)
    ELSE ToolResultMessage(tool_id, EmptyObject)

\* MessageForResult with the empty object standing in for a text that is no JSON
MessageForResult_MalformedIsEmpty(tool_id, result) ==
    IF hasattr(result, "content")
    THEN IF result.content # <<>>
         THEN IF ~hasattr(result.content[1], "text")
              THEN ToolErrorMessage(tool_id, "'ImageContent' object has no attribute 'text'")
              ELSE IF ~json_loads_ok(result.content[1].text)
              THEN ToolResultMessage(tool_id, EmptyObject)
              ELSE ToolResultMessage(tool_id, json_loads(result.content[1].text))
         ELSE ToolResultMessage(tool_id, EmptyObject)
    ELSE ToolResultMessage(tool_id, EmptyObject)

\* the message the inner try of process_with_llm appends when call_tool returned result
MessageForResult(tool_id, result) ==
    IF hasattr(result, "content")
    THEN IF result.content # <<>>
         THEN IF ~hasattr(result.content[1], "text")
              THEN ToolErrorMessage(tool_id, "'ImageContent' object has no attribute 'text'")
              ELSE IF ~json_loads_ok(result.content[1].text)
              THEN ToolErrorMessage(tool_id, JsonDecodeError)
              ELSE ToolResultMessage(tool_id, json_loads(result.content[1].text))
         ELSE ToolResultMessage(tool_id, EmptyObject)
    ELSE ToolResultMessage(tool_id, EmptyObject)

\* the calls process_with_llm waits for: messages.create, and call_tool for
\* the ToolUse block with the given id
ModelCall == [kind |-> "model", id |-> 0]
ToolCall(id) == [kind |-> "tool", id |-> id]

\* process_with_llm returns value: its locals are gone
Return(value) ==
    /\ pc' = "input"
    /\ response' = value
    /\ earlier' = TRUE
    /\ tools' = <<>>
    /\ messages' = <<>>
    /\ iteration' = 0
    /\ tool_calls' = <<>>
    /\ tc' = 0
    /\ sent' = <<>>
    /\ in_flight' = {}

\* NextToolCall with the loop bound off by one: range(max_iterations + 1)
NextToolCall_OneMorePass(msgs) ==
    IF tc < Len(tool_calls)
    THEN /\ tc' = tc + 1
         /\ messages' = msgs
         /\ in_flight' = {ToolCall(tool_calls[tc + 1].id)}
         /\ UNCHANGED <<pc, response, earlier, tools, iteration, tool_calls, sent>>
    ELSE IF iteration + 1 < max_iterations + 1
    THEN /\ iteration' = iteration + 1
         /\ pc' = "llm"
         /\ messages' = msgs
         /\ tool_calls' = <<>>
         /\ tc' = 0
         /\ in_flight' = {ModelCall}
         /\ UNCHANGED <<response, earlier, tools, sent>>
    ELSE Return(MoreTimeText)

\* the inner for loop moves on after the try statement of one tool call, msgs
\* being the conversation with that call's message appended
NextToolCall(msgs) ==
    IF tc < Len(tool_calls)
    THEN /\ tc' = tc + 1
         /\ messages' = msgs
         /\ in_flight' = {ToolCall(tool_calls[tc + 1].id)}
         /\ UNCHANGED <<pc, response, earlier, tools, iteration, tool_calls, sent>>
    ELSE IF iteration + 1 < max_iterations
    THEN /\ iteration' = iteration + 1
         /\ pc' = "llm"
         /\ messages' = msgs
         /\ tool_calls' = <<>>
         /\ tc' = 0
         /\ in_flight' = {ModelCall}
         /\ UNCHANGED <<response, earlier, tools, sent>>
    ELSE Return(MoreTimeText)

(***************************************************************************)
(* The interactive shell.                                                  *)
(***************************************************************************)
UserInputs ==
    {"Add a todo to buy milk", " delete todo 99 ", "Tick off todo 1, then drop todo 99",
     "", "   ", "quit", " Exit", "BYE"}

\* str.strip on the inputs
strip(s) ==
    CASE s = " delete todo 99 " -> "delete todo 99"
      [] s = "   " -> ""
      [] s = " Exit" -> "Exit"
      [] OTHER -> s

\* str.lower on the stripped inputs
lower(s) ==
    CASE s = "Add a todo to buy milk" -> "add a todo to buy milk"
      [] s = "Tick off todo 1, then drop todo 99" -> "tick off todo 1, then drop todo 99"
      [] s = "Exit" -> "exit"
      [] s = "BYE" -> "bye"
      [] OTHER -> s

\* main's finally clause: client.cleanup(), which closes the adapter
Cleanup ==
    /\ pc' = "closed"
    /\ closes' = closes + 1
    /\ tools' = <<>>
    /\ messages' = <<>>
    /\ iteration' = 0
    /\ tool_calls' = <<>>
    /\ tc' = 0
    /\ sent' = <<>>
    /\ in_flight' = {}
    /\ UNCHANGED <<available_tools, response, llm_calls, llm_result, invoked, results,
                   faults, earlier, offered, translations, shellVars, storeVars>>

\* sys.exit has not been called
NotCalled == [called |-> FALSE, status |-> 0]

\* What os.getenv("ANTHROPIC_API_KEY") can return: None for a variable that is
\* not set, or the text it is set to.  NotRead stands for the local before the
\* call.
NotRead == [set |-> FALSE, value |-> "(not read)"]
ApiKeys == {[set |-> FALSE, value |-> "None"], [set |-> TRUE, value |-> ""],
            [set |-> TRUE, value |-> "sk-ant-api03"]}

\* not api_key
IsFalsy(key) == ~key.set \/ key.value = ""

ApiKeyMissingText == "Error: ANTHROPIC_API_KEY not found"

\* no tool function of the server has returned yet
NoReturn == [nothing |-> TRUE]

\* The host and the server before the host does anything at `place`, the
\* server running the script `script`.
InitAt(place, script) ==
    /\ pc = place
    /\ session = "none"
    /\ available_tools = <<>>
    /\ conversation_history = <<>>
    /\ sys_exit = NotCalled
    /\ translations = <<>>
    /\ sent = <<>>
    /\ in_flight = {}
    /\ printed = ""
    /\ api_key = IF place = "main" THEN NotRead ELSE [set |-> TRUE, value |-> "sk-ant-api03"]
    /\ ending = "running"
    /\ server = script
    /\ todos = EmptyObject
    /\ next_id = 1
    /\ tool_called = [name |-> "(none)"]
    /\ tool_return = NoReturn
    /\ issued = <<>>
    /\ deleted = {}
    /\ peer = [todos |-> EmptyObject, next_id |-> 1, value |-> NoReturn]
    /\ tools = <<>>
    /\ messages = <<>>
    /\ iteration = 0
    /\ tool_calls = <<>>
    /\ tc = 0
    /\ response = NoResponse
    /\ llm_calls = 0
    /\ llm_result = NoCall
    /\ invoked = <<>>
    /\ results = <<>>
    /\ faults = 0
    /\ earlier = FALSE
    /\ closes = 0
    /\ offered = {}

\* main has built the TodoChatClient and is about to call start()
Init == InitAt("start", "good")

\* Main accepting a key that is set but empty: if api_key is None
Main_AcceptsEmptyKey(key) ==
    /\ pc = "main"
    /\ api_key' = key
    /\ IF ~key.set
       THEN /\ pc' = "exited"
            /\ printed' = ApiKeyMissingText
            /\ sys_exit' = [called |-> TRUE, status |-> 1]
       ELSE /\ pc' = "start"
            /\ UNCHANGED <<printed, sys_exit>>
    /\ UNCHANGED <<session, available_tools, conversation_history, tools, messages,
                   iteration, tool_calls, tc, response, llm_calls, llm_result, invoked,
                   results, faults, earlier, closes, offered, translations, sent, in_flight,
                   ending, storeVars>>

\* main from the check of the API key to the construction of the client;
\* os.getenv returns key
Main(key) ==
    /\ pc = "main"
    /\ api_key' = key
    /\ IF IsFalsy(key)
       THEN /\ pc' = "exited"
            /\ printed' = ApiKeyMissingText
            /\ sys_exit' = [called |-> TRUE, status |-> 1]
       ELSE /\ pc' = "start"
            /\ UNCHANGED <<printed, sys_exit>>
    /\ UNCHANGED <<session, available_tools, conversation_history, tools, messages,
                   iteration, tool_calls, tc, response, llm_calls, llm_result, invoked,
                   results, faults, earlier, closes, offered, translations, sent, in_flight,
                   ending, storeVars>>

\* TodoMCPClient.connect, called by start; list_tools returns found
Connect(found) ==
    /\ pc = "start"
    /\ pc' = "input"
    /\ session' = "open"
    /\ available_tools' = found
    /\ UNCHANGED <<tools, messages, iteration, tool_calls, tc, response, llm_calls,
                   llm_result, invoked, results, faults, earlier, closes, offered,
                   translations, sent, in_flight, ending, shellVars, storeVars>>

\* ConnectFails in a main that calls cleanup after start() without try/finally
ConnectFails_NoFinally(has_session) ==
    /\ pc = "start"
    /\ session' = IF has_session THEN "open" ELSE "none"
    /\ ending' = "connect failed"
    /\ pc' = "closed"
    /\ UNCHANGED <<available_tools, tools, messages, iteration, tool_calls, tc, response,
                   llm_calls, llm_result, invoked, results, faults, earlier, closes, offered,
                   translations, sent, in_flight, shellVars, storeVars>>

\* connect raises: launching the server fails before the session exists
\* (has_session = FALSE), or initialize / list_tools fails after it
ConnectFails(has_session) ==
    /\ pc = "start"
    /\ session' = IF has_session THEN "open" ELSE "none"
    /\ ending' = "connect failed"
    /\ Cleanup

\* the latest two entries of a history
LastTwo(history) == IF Len(history) <= 2 THEN history ELSE Tail(history)

\* ReadInput with a translation that pops the descriptors off the adapter's list
ReadInput_DrainsDescriptors(raw) ==
    /\ pc = "input"
    /\ LET user_input == strip(raw)
       IN  IF lower(user_input) \in {"quit", "exit", "bye"}
           THEN Cleanup /\ ending' = "quit" /\ UNCHANGED session
           ELSE IF user_input = ""
           THEN UNCHANGED vars
           ELSE /\ pc' = "llm"
                /\ tools' = convert_to_anthropic_tools(available_tools)
                /\ available_tools' = <<>>
                /\ messages' = <<[role |-> "user", content |-> user_input]>>
                /\ iteration' = 0
                /\ tool_calls' = <<>>
                /\ tc' = 0
                /\ response' = NoResponse
                /\ llm_calls' = 0
                /\ llm_result' = NoCall
                /\ invoked' = <<>>
                /\ results' = <<>>
                /\ faults' = 0
                /\ translations' = LastTwo(Append(translations,
                                        [of |-> available_tools, out |-> tools']))
                /\ sent' = <<>>
                /\ in_flight' = {ModelCall}
                /\ printed' = ""
                /\ UNCHANGED <<session, earlier, closes, offered, ending,
                               conversation_history, sys_exit, api_key, storeVars>>

\* ReadInput with a conversation kept in self.conversation_history over the requests
ReadInput_KeepsHistory(raw) ==
    /\ pc = "input"
    /\ LET user_input == strip(raw)
       IN  IF lower(user_input) \in {"quit", "exit", "bye"}
           THEN Cleanup /\ ending' = "quit" /\ UNCHANGED session
           ELSE IF user_input = ""
           THEN UNCHANGED vars
           ELSE /\ pc' = "llm"
                /\ tools' = convert_to_anthropic_tools(available_tools)
                /\ conversation_history' =
                      Append(conversation_history, [role |-> "user", content |-> user_input])
                /\ messages' = conversation_history'
                /\ iteration' = 0
                /\ tool_calls' = <<>>
                /\ tc' = 0
                /\ response' = NoResponse
                /\ llm_calls' = 0
                /\ llm_result' = NoCall
                /\ invoked' = <<>>
                /\ results' = <<>>
                /\ faults' = 0
                /\ translations' = LastTwo(Append(translations,
                                        [of |-> available_tools, out |-> tools']))
                /\ sent' = <<>>
                /\ in_flight' = {ModelCall}
                /\ printed' = ""
                /\ UNCHANGED <<session, available_tools, earlier, closes, offered, ending,
                               sys_exit, api_key, storeVars>>

\* chat_loop reads one line
ReadInput(raw) ==
    /\ pc = "input"
    /\ LET user_input == strip(raw)
       IN  IF lower(user_input) \in {"quit", "exit", "bye"}
           THEN Cleanup /\ ending' = "quit" /\ UNCHANGED session
           ELSE IF user_input = ""
           THEN UNCHANGED vars
           ELSE \* process_with_llm(user_input) up to its first model call
                /\ pc' = "llm"
                /\ tools' = convert_to_anthropic_tools(available_tools)
                /\ messages' = <<[role |-> "user", content |-> user_input]>>
                /\ iteration' = 0
                /\ tool_calls' = <<>>
                /\ tc' = 0
                /\ response' = NoResponse
                /\ llm_calls' = 0
                /\ llm_result' = NoCall
                /\ invoked' = <<>>
                /\ results' = <<>>
                /\ faults' = 0
                /\ translations' = LastTwo(Append(translations,
                                        [of |-> available_tools, out |-> tools']))
                /\ sent' = <<>>
                /\ in_flight' = {ModelCall}
                /\ printed' = ""
                /\ UNCHANGED <<session, available_tools, earlier, closes, offered, ending,
                               conversation_history, sys_exit, api_key, storeVars>>

\* exceptions the body of chat_loop's try raises outside process_with_llm:
\* input() at the end of the input
ShellExceptions == {"EOF when reading a line"}

\* ShellRaises with a handler that ends the loop
ShellRaises_EndsLoop(e) ==
    /\ pc = "input"
    /\ printed' = "Error: " \o e
    /\ pc' = "closed"
    /\ closes' = closes + 1
    /\ ending' = "error"
    /\ UNCHANGED <<session, available_tools, tools, messages, iteration, tool_calls,
                   tc, response, llm_calls, llm_result, invoked, results, faults, earlier, offered,
                   translations, sent, in_flight, conversation_history,
                   sys_exit, api_key, storeVars>>

\* chat_loop's except Exception: the error is printed and the loop goes on
ShellRaises(e) ==
    /\ pc = "input"
    /\ printed' = "Error: " \o e
    /\ UNCHANGED <<pc, session, available_tools, tools, messages, iteration, tool_calls,
                   tc, response, llm_calls, llm_result, invoked, results, faults, earlier,
                   closes, offered, translations, sent, in_flight, ending, conversation_history,
                   sys_exit, api_key, storeVars>>

\* an exception chat_loop has no handler for (asyncio.CancelledError when the
\* task is cancelled) leaves chat_loop and start
Escapes ==
    /\ pc \in {"input", "llm", "tools"}
    /\ Cleanup
    /\ ending' = "escaped"
    /\ UNCHANGED session

\* KeyboardInterrupt while the shell waits for input or for a call to return
Interrupt ==
    /\ pc \in {"input", "llm", "tools"}
    /\ Cleanup
    /\ ending' = "interrupt"
    /\ UNCHANGED session

\* ModelReplies with a conversation cut down to the latest reply
ModelReplies_DropsEarlierTurns(content) ==
    /\ pc = "llm"
    /\ llm_calls' = llm_calls + 1
    /\ llm_result' = [raised |-> FALSE, content |-> content]
    /\ invoked' = <<>>
    /\ results' = <<>>
    /\ LET tool_calls_ == BlocksOfType(content, "tool_use")
       IN  IF tool_calls_ = <<>>
           THEN Return(FinalAnswer(content))
           ELSE /\ messages' = <<messages[1], AssistantMessage(content)>>
                /\ tool_calls' = tool_calls_
                /\ tc' = 1
                /\ pc' = "tools"
                /\ sent' = messages
                /\ in_flight' = {ToolCall(tool_calls_[1].id)}
                /\ UNCHANGED <<response, earlier, tools, iteration>>
    /\ offered' = offered \cup {tools}
    /\ UNCHANGED <<session, available_tools, faults, closes, translations, ending,
                   shellVars, storeVars>>

\* ModelReplies with the tool calls of the reply started together (asyncio.gather)
ModelReplies_Gather(content) ==
    /\ pc = "llm"
    /\ llm_calls' = llm_calls + 1
    /\ llm_result' = [raised |-> FALSE, content |-> content]
    /\ invoked' = <<>>
    /\ results' = <<>>
    /\ LET tool_calls_ == BlocksOfType(content, "tool_use")
       IN  IF tool_calls_ = <<>>
           THEN Return(FinalAnswer(content))
           ELSE /\ messages' = Append(messages, AssistantMessage(content))
                /\ tool_calls' = tool_calls_
                /\ tc' = 1
                /\ pc' = "tools"
                /\ sent' = messages
                /\ in_flight' = {ToolCall(tool_calls_[i].id) : i \in DOMAIN tool_calls_}
                /\ UNCHANGED <<response, earlier, tools, iteration>>
    /\ offered' = offered \cup {tools}
    /\ UNCHANGED <<session, available_tools, faults, closes, translations, ending,
                   shellVars, storeVars>>

\* ModelReplies in a loop that gives up as soon as the reply of the last pass
\* asks for tools, without calling them
ModelReplies_GivesUpOnLastPass(content) ==
    /\ pc = "llm"
    /\ llm_calls' = llm_calls + 1
    /\ llm_result' = [raised |-> FALSE, content |-> content]
    /\ invoked' = <<>>
    /\ results' = <<>>
    /\ LET tool_calls_ == BlocksOfType(content, "tool_use")
       IN  IF tool_calls_ = <<>>
           THEN Return(FinalAnswer(content))
           ELSE IF iteration + 1 = max_iterations
           THEN Return(MoreTimeText)
           ELSE /\ messages' = Append(messages, AssistantMessage(content))
                /\ tool_calls' = tool_calls_
                /\ tc' = 1
                /\ pc' = "tools"
                /\ sent' = messages
                /\ in_flight' = {ToolCall(tool_calls_[1].id)}
                /\ UNCHANGED <<response, earlier, tools, iteration>>
    /\ offered' = offered \cup {tools}
    /\ UNCHANGED <<session, available_tools, faults, closes, translations, ending,
                   shellVars, storeVars>>

\* messages.create returns a reply with the content blocks `content`
ModelReplies(content) ==
    /\ pc = "llm"
    /\ llm_calls' = llm_calls + 1
    /\ llm_result' = [raised |-> FALSE, content |-> content]
    /\ invoked' = <<>>
    /\ results' = <<>>
    /\ LET tool_calls_ == BlocksOfType(content, "tool_use")
       IN  IF tool_calls_ = <<>>
           THEN Return(FinalAnswer(content))
           ELSE /\ messages' = Append(messages, AssistantMessage(content))
                /\ tool_calls' = tool_calls_
                /\ tc' = 1
                /\ pc' = "tools"
                /\ sent' = messages
                /\ in_flight' = {ToolCall(tool_calls_[1].id)}
                /\ UNCHANGED <<response, earlier, tools, iteration>>
    /\ offered' = offered \cup {tools}
    /\ UNCHANGED <<session, available_tools, faults, closes, translations, ending,
                   shellVars, storeVars>>

\* ModelFails with handlers for the connection and authentication errors only:
\* any other exception leaves process_with_llm and nothing is returned
ModelFails_Unhandled(e) ==
    /\ pc = "llm"
    /\ llm_calls' = llm_calls + 1
    /\ llm_result' = [raised |-> TRUE, e |-> e]
    /\ invoked' = <<>>
    /\ results' = <<>>
    /\ IF IsConnectionError(e) \/ IsAuthenticationError(e)
       THEN Return(ModelFailureText(e))
       ELSE Return(NoResponse)
    /\ offered' = offered \cup {tools}
    /\ UNCHANGED <<session, available_tools, faults, closes, translations, ending,
                   shellVars, storeVars>>

\* messages.create raises e
ModelFails(e) ==
    /\ pc = "llm"
    /\ llm_calls' = llm_calls + 1
    /\ llm_result' = [raised |-> TRUE, e |-> e]
    /\ invoked' = <<>>
    /\ results' = <<>>
    /\ Return(ModelFailureText(e))
    /\ offered' = offered \cup {tools}
    /\ UNCHANGED <<session, available_tools, faults, closes, translations, ending,
                   shellVars, storeVars>>

\* ToolReturns in an adapter whose call_tool forgets the first descriptor it
\* has cached
ToolReturns_ForgetsDescriptor(result) ==
    /\ pc = "tools"
    /\ session # "none"
    /\ faults' = IF result = PlainResult(tool_calls[tc]) THEN faults ELSE faults + 1
    /\ faults' <= MaxFaults
    /\ available_tools' = IF available_tools = <<>> THEN <<>> ELSE Tail(available_tools)
    /\ LET tool_call == tool_calls[tc]
           message == MessageForResult(tool_call.id, result)
       IN  /\ invoked' = Append(invoked, [call |-> tool_call, raised |-> FALSE, result |-> result])
           /\ results' = Append(results, message)
           /\ NextToolCall(Append(messages, message))
    /\ UNCHANGED <<session, llm_calls, llm_result, closes, offered,
                   translations, ending, shellVars, storeVars>>

\* call_tool returns result for the tool call at tc
ToolReturns(result) ==
    /\ pc = "tools"
    /\ session # "none"
    /\ faults' = IF result = PlainResult(tool_calls[tc]) THEN faults ELSE faults + 1
    /\ faults' <= MaxFaults
    /\ LET tool_call == tool_calls[tc]
           message == MessageForResult(tool_call.id, result)
       IN  /\ invoked' = Append(invoked, [call |-> tool_call, raised |-> FALSE, result |-> result])
           /\ results' = Append(results, message)
           /\ NextToolCall(Append(messages, message))
    /\ UNCHANGED <<session, available_tools, llm_calls, llm_result, closes, offered,
                   translations, ending, shellVars, storeVars>>

\* ToolRaises with a loop that tries the failed call again
ToolRaises_Retried(fault) ==
    /\ pc = "tools"
    /\ faults < MaxFaults
    /\ faults' = faults + 1
    /\ LET tool_call == tool_calls[tc]
           message == ToolErrorMessage(tool_call.id, fault)
       IN  /\ invoked' = Append(invoked, [call |-> tool_call, raised |-> TRUE, e |-> fault])
           /\ results' = Append(results, message)
           /\ messages' = Append(messages, message)
    /\ UNCHANGED <<pc, response, earlier, tools, iteration, tool_calls, tc, session,
                   available_tools, llm_calls, llm_result, closes, offered, sent, in_flight,
                   translations, ending, shellVars, storeVars>>

\* ToolRaises with a handler that swallows the exception: nothing is appended
ToolRaises_Swallowed(fault) ==
    /\ pc = "tools"
    /\ faults < MaxFaults
    /\ faults' = faults + 1
    /\ invoked' = Append(invoked, [call |-> tool_calls[tc], raised |-> TRUE, e |-> fault])
    /\ results' = results
    /\ NextToolCall(messages)
    /\ UNCHANGED <<session, available_tools, llm_calls, llm_result, closes, offered,
                   translations, ending, shellVars, storeVars>>

\* call_tool raises: the session is missing, or the transport fails
ToolRaises(fault) ==
    /\ pc = "tools"
    /\ faults < MaxFaults
    /\ faults' = faults + 1
    /\ LET tool_call == tool_calls[tc]
           e == IF session = "none"
                THEN "MCP session not initialized. Call connect() first."
                ELSE fault
           message == ToolErrorMessage(tool_call.id, e)
       IN  /\ invoked' = Append(invoked, [call |-> tool_call, raised |-> TRUE, e |-> e])
           /\ results' = Append(results, message)
           /\ NextToolCall(Append(messages, message))
    /\ UNCHANGED <<session, available_tools, llm_calls, llm_result, closes, offered,
                   translations, ending, shellVars, storeVars>>

\* the replies messages.create can return at this point
Replies ==
    IF pc = "llm"
    THEN FinalReplies \cup {ToolReply(messages[1].content, iteration)}
    ELSE {}

\* the results call_tool can return at this point
Results ==
    IF pc = "tools" THEN {PlainResult(tool_calls[tc])} \cup OtherResults ELSE {}

Next ==
    \/ Connect(GoodServerTools)
    \/ \E has_session \in BOOLEAN : ConnectFails(has_session)
    \/ \E raw \in UserInputs : ReadInput(raw)
    \/ Interrupt
    \/ \E content \in Replies : ModelReplies(content)
    \/ \E e \in ModelExceptions : ModelFails(e)
    \/ \E result \in Results : ToolReturns(result)
    \/ \E fault \in TransportFaults : ToolRaises(fault)

Spec == Init /\ [][Next]_vars

\* main has parsed its arguments and is about to read the API key
InitMain == InitAt("main", "good")

\* the results call_tool returns when nothing goes wrong
PlainResults == IF pc = "tools" THEN {PlainResult(tool_calls[tc])} ELSE {}

\* The host from the start of main to its end, with a model API that fails
\* in two ways and a server whose results are the tools' own.
NextShell ==
    \/ \E key \in ApiKeys : Main(key)
    \/ Connect(GoodServerTools)
    \/ \E has_session \in BOOLEAN : ConnectFails(has_session)
    \/ \E raw \in UserInputs : ReadInput(raw)
    \/ \E e \in ShellExceptions : ShellRaises(e)
    \/ Interrupt
    \/ Escapes
    \/ \E content \in Replies : ModelReplies(content)
    \/ \E e \in {[cls |-> "APITimeoutError", msg |-> "Request timed out."],
                  [cls |-> "RateLimitError", msg |-> "Overloaded"]} : ModelFails(e)
    \/ \E result \in PlainResults : ToolReturns(result)
    \/ \E fault \in TransportFaults : ToolRaises(fault)

SpecShell == InitMain /\ [][NextShell]_vars

\* The host up to the translation of the tools, for any descriptors the server
\* may hand over.
Discoveries == IF pc = "start" THEN DescriptorLists ELSE {}

NextTranslation ==
    \/ \E choices \in Discoveries : Connect(Discovered(choices))
    \/ \E raw \in UserInputs : ReadInput(raw)
    \/ \E content \in FinalReplies : ModelReplies(content)

SpecTranslation == Init /\ [][NextTranslation]_vars

(***************************************************************************)
(* The tool servers good_todo_server.py and bad_todo_server.py: the         *)
(* TodoStore and the four tool functions of each.  An optional argument is  *)
(* <<>> for None and <<x>> for the value x.                                 *)
(***************************************************************************)
\* what datetime.now().isoformat() returns when a todo is created, and what it
\* returns later, when a todo is updated
Times == {"2025-01-01T09:00:00"}
LaterTimes == {"2025-01-02T10:30:00"}

\* the arguments the tools are called with: title, description and priority
\* of a new todo (the second with the defaults of the parameters), the
\* optional title, description, priority and completed of an update
CreateArgs == {<<"walk dog", "on the beach", "low">>, <<"buy milk", "", "medium">>}
UpdateArgs == {<<<<>>, <<>>, <<>>, <<TRUE>>>>,
               <<<<"buy oat milk">>, <<"2 litres">>, <<"high">>, <<>>>>,
               <<<<>>, <<>>, <<>>, <<FALSE>>>>}
Statuses == {"all", "completed", "pending"}
TodoIds == 0..(MaxTodos + 1)

\* str(todo_id) inside the f-string
str(n) == ToString(n)

\* get_next_id taking the id from the number of todos in the store
get_next_id_FromSize(store) ==
    [current_id |-> Cardinality(DOMAIN store.todos) + 1, next_id |-> store.next_id + 1]

\* TodoStore.get_next_id on the store `store`: the id it returns and the
\* counter it leaves
get_next_id(store) == [current_id |-> store.next_id, next_id |-> store.next_id + 1]

\* d with d[key] = value
SetItem(d, key, value) == [k \in DOMAIN d \cup {key} |-> IF k = key THEN value ELSE d[k]]

\* d after d.pop(key)
Pop(d, key) == [k \in DOMAIN d \ {key} |-> d[k]]

\* the ids of todos in the order of todo_store.todos.values(): a dict keeps
\* the order of insertion, and ids are inserted in increasing order
RECURSIVE Ascending(_)
Ascending(ids) ==
    IF ids = {}
    THEN <<>>
    ELSE LET least == CHOOSE i \in ids : \A j \in ids : i <= j
         IN  <<least>> \o Ascending(ids \ {least})

Values(d) == [i \in 1..Cardinality(DOMAIN d) |-> d[Ascending(DOMAIN d)[i]]]

NotFound(todo_id) == [success |-> FALSE, error |-> "Todo " \o str(todo_id) \o " not found"]

\* the module variable todo_store of the server process
todo_store == [todos |-> todos, next_id |-> next_id]

\* a tool function has run: the store it leaves and the value it returns
Outcome(store, counter, value) == [todos |-> store, next_id |-> counter, value |-> value]

(* good_todo_server.py: the tool functions on the store `store` *)
good_create_todo(store, title, description, priority, now) ==
    LET got == get_next_id(store)
        todo_id == got.current_id
        todo == [id |-> todo_id, title |-> title, description |-> description,
                 priority |-> priority, completed |-> FALSE, created_at |-> now]
    IN  Outcome(SetItem(store.todos, todo_id, todo), got.next_id,
                [success |-> TRUE, todo |-> todo])

\* list_todos whose "pending" branch does not test the completion flag
good_list_todos_PendingUntested(store, status) ==
    LET filtered_todos ==
            SelectSeq(Values(store.todos),
                      LAMBDA todo : \/ status = "all"
                                    \/ status = "completed" /\ todo.completed
                                    \/ status = "pending")
    IN  Outcome(store.todos, store.next_id,
                [todos |-> filtered_todos, count |-> Len(filtered_todos),
                 total |-> Cardinality(DOMAIN store.todos)])

good_list_todos(store, status) ==
    LET filtered_todos ==
            SelectSeq(Values(store.todos),
                      LAMBDA todo : \/ status = "all"
                                    \/ status = "completed" /\ todo.completed
                                    \/ status = "pending" /\ ~todo.completed)
    IN  Outcome(store.todos, store.next_id,
                [todos |-> filtered_todos, count |-> Len(filtered_todos),
                 total |-> Cardinality(DOMAIN store.todos)])

\* Updated with a completion flag that is written whether or not it was
\* passed: todo["completed"] = bool(completed)
Updated_WritesAbsentFlag(todo0, title, description, priority, completed, now) ==
    LET todo1 == IF title # <<>> THEN SetItem(todo0, "title", title[1]) ELSE todo0
        todo2 == IF description # <<>>
                 THEN SetItem(todo1, "description", description[1]) ELSE todo1
        todo3 == IF priority # <<>> THEN SetItem(todo2, "priority", priority[1]) ELSE todo2
        todo4 == SetItem(todo3, "completed", completed # <<>> /\ completed[1])
    IN  SetItem(todo4, "updated_at", now)

\* the todo after the assignments of update_todo for the arguments given
Updated(todo0, title, description, priority, completed, now) ==
    LET todo1 == IF title # <<>> THEN SetItem(todo0, "title", title[1]) ELSE todo0
        todo2 == IF description # <<>>
                 THEN SetItem(todo1, "description", description[1]) ELSE todo1
        todo3 == IF priority # <<>> THEN SetItem(todo2, "priority", priority[1]) ELSE todo2
        todo4 == IF completed # <<>> THEN SetItem(todo3, "completed", completed[1]) ELSE todo3
    IN  SetItem(todo4, "updated_at", now)

good_update_todo(store, todo_id, title, description, priority, completed, now) ==
    IF todo_id \notin DOMAIN store.todos
    THEN Outcome(store.todos, store.next_id, NotFound(todo_id))
    ELSE LET todo == Updated(store.todos[todo_id], title, description, priority,
                             completed, now)
         IN  Outcome(SetItem(store.todos, todo_id, todo), store.next_id,
                     [success |-> TRUE, todo |-> todo])

\* delete_todo reading the todo with todos.get(todo_id) where the code pops it
good_delete_todo_Gets(store, todo_id) ==
    IF todo_id \notin DOMAIN store.todos
    THEN Outcome(store.todos, store.next_id, NotFound(todo_id))
    ELSE Outcome(store.todos, store.next_id,
                 [success |-> TRUE, deleted_todo |-> store.todos[todo_id]])

good_delete_todo(store, todo_id) ==
    IF todo_id \notin DOMAIN store.todos
    THEN Outcome(store.todos, store.next_id, NotFound(todo_id))
    ELSE Outcome(Pop(store.todos, todo_id), store.next_id,
                 [success |-> TRUE, deleted_todo |-> store.todos[todo_id]])

(* bad_todo_server.py: the tool functions on the store `store` *)
bad_create(store, title, description, priority, now) ==
    LET got == get_next_id(store)
        todo_id == got.current_id
        todo == [id |-> todo_id, t |-> title, de |-> description, pr |-> priority,
                 co |-> FALSE, ca |-> now]
    IN  Outcome(SetItem(store.todos, todo_id, todo), got.next_id,
                [success |-> TRUE, todo |-> todo])

bad_list(store, status) ==
    LET filtered_todos ==
            SelectSeq(Values(store.todos),
                      LAMBDA todo : \/ status = "all"
                                    \/ status = "completed" /\ todo.co
                                    \/ status = "pending" /\ ~todo.co)
    IN  Outcome(store.todos, store.next_id,
                [todos |-> filtered_todos, count |-> Len(filtered_todos),
                 total |-> Cardinality(DOMAIN store.todos)])

\* bad_todo_server.py's update writing the completion flag under the name the
\* good server uses
bad_update_KeepsGoodName(store, todo_id, title, description, priority, completed, now) ==
    IF todo_id \notin DOMAIN store.todos
    THEN Outcome(store.todos, store.next_id, NotFound(todo_id))
    ELSE LET todo0 == store.todos[todo_id]
             todo1 == IF title # <<>> THEN SetItem(todo0, "t", title[1]) ELSE todo0
             todo2 == IF description # <<>> THEN SetItem(todo1, "de", description[1]) ELSE todo1
             todo3 == IF priority # <<>> THEN SetItem(todo2, "pr", priority[1]) ELSE todo2
             todo4 == IF completed # <<>>
                      THEN SetItem(todo3, "completed", completed[1]) ELSE todo3
             todo == SetItem(todo4, "updated_at", now)
         IN  Outcome(SetItem(store.todos, todo_id, todo), store.next_id,
                     [success |-> TRUE, todo |-> todo])

bad_update(store, todo_id, title, description, priority, completed, now) ==
    IF todo_id \notin DOMAIN store.todos
    THEN Outcome(store.todos, store.next_id, NotFound(todo_id))
    ELSE LET todo0 == store.todos[todo_id]
             todo1 == IF title # <<>> THEN SetItem(todo0, "t", title[1]) ELSE todo0
             todo2 == IF description # <<>> THEN SetItem(todo1, "de", description[1]) ELSE todo1
             todo3 == IF priority # <<>> THEN SetItem(todo2, "pr", priority[1]) ELSE todo2
             todo4 == IF completed # <<>> THEN SetItem(todo3, "co", completed[1]) ELSE todo3
             todo == SetItem(todo4, "updated_at", now)
         IN  Outcome(SetItem(store.todos, todo_id, todo), store.next_id,
                     [success |-> TRUE, todo |-> todo])

bad_delete(store, todo_id) ==
    IF todo_id \notin DOMAIN store.todos
    THEN Outcome(store.todos, store.next_id, NotFound(todo_id))
    ELSE Outcome(Pop(store.todos, todo_id), store.next_id,
                 [success |-> TRUE, deleted_todo |-> store.todos[todo_id]])

\* the ids issued and the ids deleted once the call `call` has returned value
IssuedAfter(call, value) ==
    IF call.name \in {"create_todo", "create"} THEN Append(issued, value.todo.id) ELSE issued

DeletedAfter(call, value) ==
    IF call.name \in {"delete_todo", "delete"} /\ value.success
    THEN deleted \cup {value.deleted_todo.id}
    ELSE deleted

\* a tool function of the script `script` is called as `call`; it returns
\* value and leaves the store as store with the counter at counter
ToolFunction(script, call, store, counter, value) ==
    /\ server = script
    /\ tool_called' = call
    /\ todos' = store
    /\ next_id' = counter
    /\ tool_return' = value
    /\ issued' = IssuedAfter(call, value)
    /\ deleted' = DeletedAfter(call, value)
    /\ UNCHANGED <<server, peer, hostVars>>

\* the calls as the client sends them, with their arguments
CreateCall(name, title, description, priority) ==
    [name |-> name, title |-> title, description |-> description, priority |-> priority]

UpdateCall(name, todo_id, title, description, priority, completed) ==
    [name |-> name, todo_id |-> todo_id, title |-> title, description |-> description,
     priority |-> priority, completed |-> completed]

(* good_todo_server.py: the server process serves a call *)
create_todo(title, description, priority, now) ==
    /\ next_id <= MaxTodos
    /\ LET out == good_create_todo(todo_store, title, description, priority, now)
       IN  ToolFunction("good", CreateCall("create_todo", title, description, priority),
                        out.todos, out.next_id, out.value)

list_todos(status) ==
    LET out == good_list_todos(todo_store, status)
    IN  ToolFunction("good", [name |-> "list_todos", status |-> status],
                     out.todos, out.next_id, out.value)

\* update_todo storing a new todo under an id that is not there
update_todo_Upserts(todo_id, title, description, priority, completed, now) ==
    LET todo == IF todo_id \notin DOMAIN todos
                THEN Updated([id |-> todo_id], title, description, priority, completed, now)
                ELSE Updated(todos[todo_id], title, description, priority, completed, now)
    IN  ToolFunction("good",
                     UpdateCall("update_todo", todo_id, title, description, priority, completed),
                     SetItem(todos, todo_id, todo), next_id,
                     [success |-> TRUE, todo |-> todo])

update_todo(todo_id, title, description, priority, completed, now) ==
    LET out == good_update_todo(todo_store, todo_id, title, description, priority,
                                completed, now)
    IN  ToolFunction("good",
                     UpdateCall("update_todo", todo_id, title, description, priority, completed),
                     out.todos, out.next_id, out.value)

delete_todo(todo_id) ==
    LET out == good_delete_todo(todo_store, todo_id)
    IN  ToolFunction("good", [name |-> "delete_todo", todo_id |-> todo_id],
                     out.todos, out.next_id, out.value)

(* bad_todo_server.py: the server process serves a call *)
create(title, description, priority, now) ==
    /\ next_id <= MaxTodos
    /\ LET out == bad_create(todo_store, title, description, priority, now)
       IN  ToolFunction("bad", CreateCall("create", title, description, priority),
                        out.todos, out.next_id, out.value)

list(status) ==
    LET out == bad_list(todo_store, status)
    IN  ToolFunction("bad", [name |-> "list", status |-> status],
                     out.todos, out.next_id, out.value)

update(todo_id, title, description, priority, completed, now) ==
    LET out == bad_update(todo_store, todo_id, title, description, priority, completed, now)
    IN  ToolFunction("bad",
                     UpdateCall("update", todo_id, title, description, priority, completed),
                     out.todos, out.next_id, out.value)

delete(todo_id) ==
    LET out == bad_delete(todo_store, todo_id)
    IN  ToolFunction("bad", [name |-> "delete", todo_id |-> todo_id],
                     out.todos, out.next_id, out.value)

\* a server process has started: todo_store is new, no tool was called
InitStore == \E script \in {"good", "bad"} : InitAt("start", script)

\* the tool calls a client can make, in any order
NextStore ==
    \/ \E args \in CreateArgs, now \in Times : create_todo(args[1], args[2], args[3], now)
    \/ \E status \in Statuses : list_todos(status)
    \/ \E todo_id \in TodoIds, args \in UpdateArgs, now \in LaterTimes :
          update_todo(todo_id, args[1], args[2], args[3], args[4], now)
    \/ \E todo_id \in TodoIds : delete_todo(todo_id)
    \/ \E args \in CreateArgs, now \in Times : create(args[1], args[2], args[3], now)
    \/ \E status \in Statuses : list(status)
    \/ \E todo_id \in TodoIds, args \in UpdateArgs, now \in LaterTimes :
          update(todo_id, args[1], args[2], args[3], args[4], now)
    \/ \E todo_id \in TodoIds : delete(todo_id)

SpecStore == InitStore /\ [][NextStore]_vars

\* One client sends the same call, with the same arguments and at the same
\* clock reading, to a process running good_todo_server.py (todos, next_id)
\* and to a process running bad_todo_server.py (peer): the good one leaves and
\* returns g, the bad one b.
BothServe(call, g, b) ==
    /\ server = "good"
    /\ tool_called' = call
    /\ todos' = g.todos
    /\ next_id' = g.next_id
    /\ tool_return' = g.value
    /\ issued' = IssuedAfter(call, g.value)
    /\ deleted' = DeletedAfter(call, g.value)
    /\ peer' = b
    /\ UNCHANGED <<server, hostVars>>

BothCreate(title, description, priority, now) ==
    /\ next_id <= MaxTodos
    /\ BothServe(CreateCall("create_todo", title, description, priority),
                 good_create_todo(todo_store, title, description, priority, now),
                 bad_create(peer, title, description, priority, now))

BothList(status) ==
    BothServe([name |-> "list_todos", status |-> status],
              good_list_todos(todo_store, status), bad_list(peer, status))

BothUpdate(todo_id, title, description, priority, completed, now) ==
    BothServe(UpdateCall("update_todo", todo_id, title, description, priority, completed),
              good_update_todo(todo_store, todo_id, title, description, priority,
                               completed, now),
              bad_update(peer, todo_id, title, description, priority, completed, now))

BothDelete(todo_id) ==
    BothServe([name |-> "delete_todo", todo_id |-> todo_id],
              good_delete_todo(todo_store, todo_id), bad_delete(peer, todo_id))

NextPair ==
    \/ \E args \in CreateArgs, now \in Times : BothCreate(args[1], args[2], args[3], now)
    \/ \E status \in Statuses : BothList(status)
    \/ \E todo_id \in TodoIds, args \in UpdateArgs, now \in LaterTimes :
          BothUpdate(todo_id, args[1], args[2], args[3], args[4], now)
    \/ \E todo_id \in TodoIds : BothDelete(todo_id)

SpecPair == InitAt("start", "good") /\ [][NextPair]_vars

(***************************************************************************)
(* Properties of the orchestration loop.                                   *)
(***************************************************************************)
\* process_with_llm has returned and the shell has not read the next request
Returned == pc = "input" /\ llm_calls > 0

\* the latest model call returned a reply, with or without ToolUse blocks
Replied == llm_calls > 0 /\ ~llm_result.raised

HasBlock(content, kind) == \E i \in DOMAIN content : content[i].type = kind

\* C1: a request makes at most 10 model calls: a call is only ever issued when
\* fewer than 10 were made, and a request whose tenth reply still asked for
\* tools returns exactly the "need more time" message.
C1_IterationCap ==
    /\ llm_calls <= 10
    /\ pc = "llm" => llm_calls < 10
    /\ pc = "tools" => llm_calls <= 10 /\ Replied /\ HasBlock(llm_result.content, "tool_use")
    /\ (Returned /\ Replied /\ HasBlock(llm_result.content, "tool_use")) =>
          /\ llm_calls = 10
          /\ response = "I need more time to complete this request. Please try breaking it into smaller steps."

C1_Witness ==
    /\ Returned
    /\ Replied
    /\ llm_calls = 10
    /\ HasBlock(llm_result.content, "tool_use")
    /\ response = "I need more time to complete this request. Please try breaking it into smaller steps."

\* the ids of the ToolUse blocks of an assistant turn
ToolUseIds(turn) ==
    {turn.content[i].id : i \in {j \in DOMAIN turn.content : turn.content[j].type = "tool_use"}}

\* the places of the assistant turns of a conversation
AssistantTurns(msgs) == {i \in DOMAIN msgs : msgs[i].role = "assistant"}

\* the places after assistant turn i and before the next assistant turn
TurnsAfter(msgs, i) ==
    LET later == {k \in AssistantTurns(msgs) : k > i}
        next == IF later = {}
                THEN Len(msgs) + 1
                ELSE CHOOSE k \in later : \A l \in later : k <= l
    IN  (i + 1)..(next - 1)

IsToolResult(msg) ==
    /\ msg.role = "user"
    /\ Len(msg.content) = 1
    /\ msg.content[1].type = "tool_result"

IsError(msg) == "is_error" \in DOMAIN msg.content[1] /\ msg.content[1].is_error

\* C2: whenever a model call is about to be issued, every assistant turn of
\* the conversation is followed, before the next assistant turn, by tool
\* results only, one for each ToolUse id of the turn and none for any other id.
C2_NoOrphanToolUse ==
    pc = "llm" =>
        \A i \in AssistantTurns(messages) :
            /\ \A j \in TurnsAfter(messages, i) :
                  /\ IsToolResult(messages[j])
                  /\ messages[j].content[1].tool_use_id \in ToolUseIds(messages[i])
            /\ \A id \in ToolUseIds(messages[i]) :
                  Cardinality({j \in TurnsAfter(messages, i) :
                                  messages[j].content[1].tool_use_id = id}) = 1

C2_Witness ==
    /\ pc = "llm"
    /\ \E i \in AssistantTurns(messages) :
          /\ Cardinality(ToolUseIds(messages[i])) = 2
          /\ \E j \in TurnsAfter(messages, i) : IsError(messages[j])
          /\ \E j \in TurnsAfter(messages, i) : ~IsError(messages[j])

\* the first Text block of a reply, found by its place
FirstTextPlace(content) ==
    CHOOSE i \in DOMAIN content :
        content[i].type = "text" /\ \A j \in 1..(i - 1) : content[j].type # "text"

\* C3: a reply without ToolUse blocks and with a Text block ends the request:
\* the host is back in the shell, no tool was invoked for the reply, and the
\* value returned is the text of the reply's first Text block.
C3_FinalAnswerIsFirstText ==
    (Replied /\ ~HasBlock(llm_result.content, "tool_use")
             /\ HasBlock(llm_result.content, "text")) =>
        /\ pc \in {"input", "closed"}
        /\ invoked = <<>>
        /\ response = llm_result.content[FirstTextPlace(llm_result.content)].text

C3_Witness ==
    /\ Returned
    /\ Replied
    /\ llm_calls > 1
    /\ Len(BlocksOfType(llm_result.content, "text")) > 1
    /\ ~HasBlock(llm_result.content, "tool_use")
    /\ response = "Todo 99 was not found."

\* C4 as claimed: a reply with neither ToolUse nor Text blocks makes
\* process_with_llm return "task completed with no further detail".
C4_AsClaimed ==
    (Replied /\ llm_result.content = <<>>) =>
        response = "task completed with no further detail"

\* C4: a reply with neither ToolUse nor Text blocks ends the request with the
\* fixed string "I completed the task."
C4_FallbackText ==
    (Replied /\ ~HasBlock(llm_result.content, "tool_use")
             /\ ~HasBlock(llm_result.content, "text")) =>
        /\ pc \in {"input", "closed"}
        /\ response = "I completed the task."

C4_Witness ==
    /\ Returned
    /\ Replied
    /\ llm_result.content = <<>>
    /\ response = "I completed the task."

\* the place in a reply of its n-th ToolUse block
NthToolUse(content, n) ==
    CHOOSE i \in DOMAIN content :
        /\ content[i].type = "tool_use"
        /\ Cardinality({j \in 1..i : content[j].type = "tool_use"}) = n

ToolUseCount(content) == Cardinality({j \in DOMAIN content : content[j].type = "tool_use"})

\* the last n turns of a conversation
LastTurns(msgs, n) == SubSeq(msgs, Len(msgs) - n + 1, Len(msgs))

\* C5: in every pass call_tool is called once for each ToolUse block of the
\* reply, in the order of the blocks: after k calls they were for the first k
\* blocks, the next call is for block k + 1, and the pass ends when every block
\* has been called once.  The tool results stand in the conversation in the
\* order of the calls, each with the id of its call.
C5_OneCallPerBlockInOrder ==
    ((pc \in {"tools", "llm"} \/ Returned) /\ Replied) =>
        LET content == llm_result.content
        IN  /\ Len(results) = Len(invoked)
            /\ \A k \in DOMAIN invoked :
                  /\ invoked[k].call = content[NthToolUse(content, k)]
                  /\ IsToolResult(results[k])
                  /\ results[k].content[1].tool_use_id = invoked[k].call.id
            /\ pc = "tools" =>
                  /\ Len(invoked) = tc - 1
                  /\ tc <= ToolUseCount(content)
                  /\ tool_calls[tc] = content[NthToolUse(content, tc)]
            /\ pc # "tools" => Len(invoked) = ToolUseCount(content)
            /\ pc \in {"tools", "llm"} =>
                  /\ LastTurns(messages, Len(results)) = results
                  /\ messages[Len(messages) - Len(results)] = [role |-> "assistant", content |-> content]

C5_Witness ==
    /\ pc = "llm"
    /\ Len(invoked) = 2
    /\ invoked[1].raised
    /\ ~invoked[2].raised
    /\ invoked[1].call.name = "delete_todo"
    /\ invoked[2].call.name = "list_todos"

\* C6: a call_tool call that raised left a tool result with is_error = true,
\* the text "Error: " followed by the exception's text, and the id of its
\* ToolUse block; after it the loop is at the next block of the pass, or at
\* the next model call, or it has returned because the tenth pass ended.
C6_TransportFaultBecomesErrorResult ==
    \A k \in DOMAIN invoked :
        invoked[k].raised =>
            /\ results[k] =
                  [role |-> "user",
                   content |-> <<[type |-> "tool_result",
                                  tool_use_id |-> invoked[k].call.id,
                                  content |-> "Error: " \o invoked[k].e,
                                  is_error |-> TRUE]>>]
            /\ \/ pc = "tools" /\ tc = Len(invoked) + 1 /\ LastTurns(messages, Len(results)) = results
               \/ pc = "llm" /\ Len(invoked) = ToolUseCount(llm_result.content)
                             /\ LastTurns(messages, Len(results)) = results
               \/ Returned /\ llm_calls = 10
                           /\ response = "I need more time to complete this request. Please try breaking it into smaller steps."
               \/ pc = "closed"

C6_Witness ==
    /\ pc = "llm"
    /\ Len(invoked) = 2
    /\ invoked[1].raised
    /\ invoked[1].e = "Connection reset by peer"
    /\ IsError(messages[Len(messages) - 1])
    /\ ~IsError(messages[Len(messages)])

\* call_tool returned a result whose first content block is well-formed JSON
HasPayload(call) ==
    /\ ~call.raised
    /\ "content" \in DOMAIN call.result
    /\ call.result.content # <<>>
    /\ "text" \in DOMAIN call.result.content[1]
    /\ call.result.content[1].text.layout # "malformed"

Payload(call) == call.result.content[1].text.val

\* C7: a payload the tool returned, with success = false as with any other
\* content, is appended as a tool result without the is_error flag, with the
\* id of its ToolUse block and with the payload re-encoded as JSON; the loop
\* goes on as after every other call.
C7_ApplicationFailureIsPlainResult ==
    \A k \in DOMAIN invoked :
        HasPayload(invoked[k]) =>
            /\ results[k] =
                  [role |-> "user",
                   content |-> <<[type |-> "tool_result",
                                  tool_use_id |-> invoked[k].call.id,
                                  content |-> [layout |-> "dumps", val |-> Payload(invoked[k])]]>>]
            /\ \/ pc = "tools" /\ tc = Len(invoked) + 1
               \/ pc = "llm" /\ Len(invoked) = ToolUseCount(llm_result.content)
               \/ Returned /\ llm_calls = 10
               \/ pc = "closed"

C7_Witness ==
    /\ pc = "tools"
    /\ Len(invoked) = 1
    /\ HasPayload(invoked[1])
    /\ Payload(invoked[1]) = [success |-> FALSE, error |-> "Todo 99 not found"]
    /\ ~IsError(messages[Len(messages)])
    /\ messages[Len(messages)].content[1].content.val.success = FALSE

\* the latest model call of the request raised
ModelCallFailed == llm_calls > 0 /\ llm_result.raised

\* C8: a model call that raised ends the request: process_with_llm has
\* returned one of its explanatory texts and no tool was invoked after it.
C8_ModelFailureEndsRequest ==
    ModelCallFailed =>
        /\ pc \in {"input", "closed"}
        /\ invoked = <<>>
        /\ response \in {"SSL Certificate Error: Unable to connect to Claude API.",
                         "Connection Error: Unable to reach Claude API.",
                         "Authentication Error: Invalid API key."}
                        \cup {"Error: " \o text : text \in ExceptionTexts}

C8_Witness ==
    /\ Returned
    /\ ModelCallFailed
    /\ llm_calls = 10
    /\ llm_result.e.cls = "APITimeoutError"
    /\ response = "Connection Error: Unable to reach Claude API."

\* the exception texts that hold "certificate" or "ssl" in some letter case
TextsNamingSsl == {"SSL handshake failed", "bad Certificate", "classless host"}

\* C9: the text returned for a failed model call is decided by the exception:
\* a connection error (a timeout is one) gives the SSL text when its text
\* names ssl or certificate and the connection text otherwise, an
\* authentication error the API-key text, anything else "Error: " and its text.
C9_FailureClassification ==
    ModelCallFailed =>
        LET e == llm_result.e
        IN  response =
              IF e.cls \in {"APIConnectionError", "APITimeoutError"}
              THEN IF e.msg \in TextsNamingSsl
                   THEN "SSL Certificate Error: Unable to connect to Claude API."
                   ELSE "Connection Error: Unable to reach Claude API."
              ELSE IF e.cls = "AuthenticationError"
              THEN "Authentication Error: Invalid API key."
              ELSE "Error: " \o e.msg

C9_Witness ==
    /\ Returned
    /\ ModelCallFailed
    /\ llm_result.e = [cls |-> "APIConnectionError", msg |-> "bad Certificate"]
    /\ response = "SSL Certificate Error: Unable to connect to Claude API."

\* C10: the definitions handed to the model are one per discovered tool, in
\* the order of discovery; each has the descriptor's name and description and,
\* when the descriptor's schema is a dict, the schema's properties and
\* required, with {} and [] standing in for whichever is missing or for a
\* schema that is no dict.
C10_TranslationMirrorsSchema ==
    pc = "llm" =>
        /\ Len(tools) = Len(available_tools)
        /\ \A i \in DOMAIN available_tools :
              LET tool == available_tools[i]
                  definition == tools[i]
                  mapping == "inputSchema" \in DOMAIN tool /\ tool.inputSchema.py = "dict"
              IN  /\ definition.name = tool.name
                  /\ "description" \in DOMAIN tool => definition.description = tool.description
                  /\ DOMAIN definition.input_schema = {"type", "properties", "required"}
                  /\ definition.input_schema.type = "object"
                  /\ definition.input_schema.properties =
                        IF mapping /\ "properties" \in DOMAIN tool.inputSchema.v
                        THEN tool.inputSchema.v.properties
                        ELSE [py |-> "dict", v |-> <<>>]
                  /\ definition.input_schema.required =
                        IF mapping /\ "required" \in DOMAIN tool.inputSchema.v
                        THEN tool.inputSchema.v.required
                        ELSE [py |-> "list", v |-> <<>>]

C10_Witness ==
    /\ pc = "llm"
    /\ Len(available_tools) = 2
    /\ available_tools[1].name = "tool_properties"
    /\ "required" \notin DOMAIN available_tools[1].inputSchema.v
    /\ tools[1].input_schema.required = [py |-> "list", v |-> <<>>]
    /\ tools[1].input_schema.properties = available_tools[1].inputSchema.v.properties
    /\ available_tools[2].name = "tool_None"
    /\ tools[2].name = "tool_None"
    /\ tools[2].input_schema.properties = [py |-> "dict", v |-> <<>>]

\* C11: the translation is a function of the descriptors and leaves them as
\* they are: the descriptors each of the latest two translations was given are
\* the ones the adapter still holds, and the two translations returned the
\* same definitions.
C11_TranslationIsRepeatable ==
    /\ \A i \in DOMAIN translations : translations[i].of = available_tools
    /\ Len(translations) = 2 => translations[2].out = translations[1].out
    /\ (pc = "llm" /\ translations # <<>>) => tools = translations[1].out

C11_Witness ==
    /\ pc = "llm"
    /\ earlier
    /\ Len(translations) = 2
    /\ Len(available_tools) = 2
    /\ available_tools[1].name = "tool_required"
    /\ available_tools[2].name = "tool_list"
    /\ translations[2].of = available_tools
    /\ tools = translations[1].out
    /\ tools[1].input_schema.required = [py |-> "list", v |-> <<"title">>]

\* the turns of a conversation that are neither assistant turns nor tool results
PlainUserTurns(msgs) ==
    {i \in DOMAIN msgs : msgs[i].role = "user" /\ ~IsToolResult(msgs[i])}

\* C12: the first model call of every request is given one message, the user
\* message with the text handed to process_with_llm; while the request lasts
\* that message is the only plain user turn and there is one assistant turn for
\* each reply of this request, so nothing of an earlier request is in the
\* conversation; the client's conversation_history stays empty.
C12_FreshConversation ==
    /\ conversation_history = <<>>
    /\ (pc = "llm" /\ llm_calls = 0) =>
          /\ Len(messages) = 1
          /\ messages[1].role = "user"
          /\ messages[1].content \in {"Add a todo to buy milk", "delete todo 99",
                                      "Tick off todo 1, then drop todo 99"}
    /\ pc \in {"llm", "tools"} =>
          /\ PlainUserTurns(messages) = {1}
          /\ Cardinality(AssistantTurns(messages)) = llm_calls

C12_Witness ==
    /\ earlier
    /\ response = "(nothing returned yet)"
    /\ pc = "llm"
    /\ llm_calls = 0
    /\ messages = <<[role |-> "user", content |-> "delete todo 99"]>>

\* C13: while a request lasts its conversation only grows at the end: it is
\* the user message alone before the first reply, and after a reply it is the
\* sequence the answered model call was given, then the assistant turn with
\* the reply, then the tool results of the round so far, all of them once the
\* next model call is issued.
C13_AppendOnly ==
    pc \in {"llm", "tools"} =>
        IF llm_calls = 0
        THEN Len(messages) = 1 /\ sent = <<>>
        ELSE /\ sent # <<>>
             /\ Len(messages) > Len(sent)
             /\ SubSeq(messages, 1, Len(sent)) = sent
             /\ messages[Len(sent) + 1] = [role |-> "assistant", content |-> llm_result.content]
             /\ SubSeq(messages, Len(sent) + 2, Len(messages)) = results
             /\ pc = "llm" => Len(results) = ToolUseCount(llm_result.content)

C13_Witness ==
    /\ pc = "llm"
    /\ llm_calls = 3
    /\ Len(sent) = 7
    /\ Len(messages) = 10
    /\ SubSeq(messages, 1, 7) = sent
    /\ messages[8].role = "assistant"
    /\ IsError(messages[9])
    /\ ~IsError(messages[10])

\* C14: at most one awaited call is outstanding.  A model call is outstanding
\* exactly while the loop waits for a reply, and then every tool call of the
\* round before has come back; an adapter call is outstanding exactly while the
\* loop executes the tool calls of the latest reply, it is the call for the
\* block at hand, and the calls for the blocks before it have come back.
C14_StrictlySequential ==
    /\ Cardinality(in_flight) <= 1
    /\ pc = "llm" <=> in_flight = {[kind |-> "model", id |-> 0]}
    /\ pc = "tools" <=> (\E c \in in_flight : c.kind = "tool")
    /\ pc = "llm" =>
          /\ llm_calls = iteration
          /\ llm_calls > 0 =>
                /\ ~llm_result.raised
                /\ Len(invoked) = ToolUseCount(llm_result.content)
    /\ pc = "tools" =>
          /\ ~llm_result.raised
          /\ llm_calls = iteration + 1
          /\ in_flight = {[kind |-> "tool",
                           id |-> llm_result.content[NthToolUse(llm_result.content, tc)].id]}
          /\ Len(invoked) = tc - 1

C14_Witness ==
    /\ pc = "tools"
    /\ iteration = 1
    /\ tc = 2
    /\ Len(invoked) = 1
    /\ invoked[1].call.id = 12
    /\ in_flight = {[kind |-> "tool", id |-> 13]}

\* call_tool returned a result without content: the attribute is missing or
\* the list is empty
HasNoContent(call) ==
    /\ ~call.raised
    /\ ("content" \notin DOMAIN call.result \/ call.result.content = <<>>)

\* C15: a call that returned without content left a tool result without the
\* is_error flag whose payload is the JSON text of the empty object; a call
\* that returned content whose first block is JSON text left a tool result
\* whose payload is the value of that first block, whatever blocks follow.
C15_PayloadFromFirstBlock ==
    \A k \in DOMAIN invoked :
        /\ HasNoContent(invoked[k]) =>
              results[k] =
                 [role |-> "user",
                  content |-> <<[type |-> "tool_result",
                                 tool_use_id |-> invoked[k].call.id,
                                 content |-> [layout |-> "dumps", val |-> <<>>]]>>]
        /\ (HasPayload(invoked[k]) /\ Len(invoked[k].result.content) > 1) =>
              /\ "is_error" \notin DOMAIN results[k].content[1]
              /\ results[k].content[1].content.val = invoked[k].result.content[1].text.val

C15_Witness ==
    /\ pc = "llm"
    /\ Len(invoked) = 2
    /\ ~invoked[1].raised
    /\ "content" \in DOMAIN invoked[1].result
    /\ invoked[1].result.content = <<>>
    /\ ~IsError(results[1])
    /\ results[1].content[1].content = [layout |-> "dumps", val |-> <<>>]
    /\ messages[Len(messages) - 1] = results[1]

\* call_tool returned a result whose first content block is text that is no JSON
HasMalformedText(call) ==
    /\ ~call.raised
    /\ "content" \in DOMAIN call.result
    /\ call.result.content # <<>>
    /\ "text" \in DOMAIN call.result.content[1]
    /\ call.result.content[1].text.layout = "malformed"

\* C16: a call that returned text that is no JSON left a tool result with the
\* id of its ToolUse block, is_error = true and "Error: " before the text of
\* the decoding error; after it the loop is at the next block of the pass, or
\* at the next model call, or it has returned because the tenth pass ended.
C16_InvalidJsonBecomesErrorResult ==
    \A k \in DOMAIN invoked :
        HasMalformedText(invoked[k]) =>
            /\ results[k] =
                  [role |-> "user",
                   content |-> <<[type |-> "tool_result",
                                  tool_use_id |-> invoked[k].call.id,
                                  content |-> "Error: Expecting value: line 1 column 1 (char 0)",
                                  is_error |-> TRUE]>>]
            /\ \/ pc = "tools" /\ tc = k + 1 /\ messages[Len(messages)] = results[k]
               \/ pc = "tools" /\ tc > k + 1
               \/ pc = "llm" /\ Len(invoked) = ToolUseCount(llm_result.content)
                             /\ LastTurns(messages, Len(results)) = results
               \/ Returned /\ llm_calls = 10
                           /\ response = "I need more time to complete this request. Please try breaking it into smaller steps."
               \/ pc = "closed"

C16_Witness ==
    /\ pc = "tools"
    /\ tc = 2
    /\ HasMalformedText(invoked[1])
    /\ IsError(messages[Len(messages)])
    /\ messages[Len(messages)].content[1].tool_use_id = tool_calls[1].id

\* C17: an exception in the body of chat_loop's try is printed as "Error: "
\* and its text, and the shell is still reading input after it: the loop has
\* ended only where a quit word was read, the user interrupted, or the task
\* was cancelled, and never where a request failed or an error was printed.
C17_ShellSurvivesExceptions ==
    /\ (pc \notin {"main", "exited"} /\ printed # "") =>
          /\ printed = "Error: EOF when reading a line"
          /\ pc \in {"input", "closed"}
    /\ (printed # "" \/ ModelCallFailed \/ response = MoreTimeText) =>
          \/ pc \in {"input", "exited"}
          \/ pc = "closed" /\ ending \in {"quit", "interrupt", "escaped"}
    /\ pc = "closed" => ending \in {"quit", "interrupt", "escaped", "connect failed"}
    /\ ending = "connect failed" => ~earlier /\ llm_calls = 0 /\ printed = ""

C17_Witness ==
    /\ pc = "input"
    /\ ending = "running"
    /\ earlier
    /\ ModelCallFailed
    /\ response = "Error: Overloaded"
    /\ printed = "Error: EOF when reading a line"

\* C18: the adapter is closed once, in the step that ends start(): close has
\* run exactly once wherever start() has ended, by a quit word, an interrupt,
\* a failure of connect before or after the session was opened, or an
\* exception that left the shell, and it has not run anywhere else.
C18_ClosedExactlyOnce ==
    /\ closes \in {0, 1}
    /\ ending \in {"quit", "interrupt", "connect failed", "escaped"} <=> closes = 1
    /\ pc = "closed" <=> closes = 1
    /\ closes = 0 => ending = "running"

C18_Witness ==
    /\ pc = "closed"
    /\ ending = "connect failed"
    /\ session = "open"
    /\ available_tools = <<>>
    /\ closes = 1

\* C19: a key that is not set or is empty makes main print the error and call
\* sys.exit(1) before the client exists: no server was launched, no session
\* opened, no tool discovered, no request read, no model call made and nothing
\* closed; main goes on only with a key that is set and not empty.
C19_MissingKeyExits ==
    /\ (pc # "main" /\ (~api_key.set \/ api_key.value = "")) => pc = "exited"
    /\ sys_exit.called <=> pc = "exited"
    /\ pc = "exited" =>
          /\ sys_exit.status = 1
          /\ printed = "Error: ANTHROPIC_API_KEY not found"
          /\ session = "none"
          /\ available_tools = <<>>
          /\ translations = <<>>
          /\ llm_calls = 0
          /\ in_flight = {}
          /\ closes = 0
          /\ ending = "running"

C19_Witness ==
    /\ pc = "exited"
    /\ api_key = [set |-> TRUE, value |-> ""]
    /\ sys_exit = [called |-> TRUE, status |-> 1]
    /\ printed = "Error: ANTHROPIC_API_KEY not found"

(***************************************************************************)
(* Properties of the task store.                                           *)
(***************************************************************************)
\* the decimal text of the ids tried
IdText(n) ==
    CASE n = 0 -> "0" [] n = 1 -> "1" [] n = 2 -> "2" [] n = 3 -> "3" [] n = 4 -> "4"
      [] n = 5 -> "5"

\* C20: a call of update_todo or delete_todo (update or delete on the bad
\* server) with an id that is not in the store returns success = false with
\* the error "Todo <id> not found" and changes neither the todos nor the
\* next-id counter.
C20_NotFoundLeavesStore ==
    [][ (/\ tool_called'.name \in {"update_todo", "delete_todo", "update", "delete"}
         /\ tool_called'.todo_id \notin DOMAIN todos)
        => /\ tool_return' = [success |-> FALSE,
                              error |-> "Todo " \o IdText(tool_called'.todo_id) \o " not found"]
           /\ todos' = todos
           /\ next_id' = next_id ]_vars

C20_Witness ==
    /\ tool_called = [name |-> "delete_todo", todo_id |-> 1]
    /\ tool_return = [success |-> FALSE, error |-> "Todo 1 not found"]
    /\ next_id = 3
    /\ DOMAIN todos = {2}
    /\ todos[2].id = 2

\* a todo of the bad server under the names of the good server: t is title,
\* de description, pr priority, co completed, ca created_at
Renamed(todo) ==
    LET core == [id |-> todo.id, title |-> todo.t, description |-> todo.de,
                 priority |-> todo.pr, completed |-> todo.co, created_at |-> todo.ca]
    IN  IF "updated_at" \in DOMAIN todo
        THEN [k \in DOMAIN core \cup {"updated_at"} |->
                 IF k = "updated_at" THEN todo.updated_at ELSE core[k]]
        ELSE core

\* the good server's todo g and the bad server's todo b are the same todo
SameTodo(g, b) ==
    /\ DOMAIN b \subseteq {"id", "t", "de", "pr", "co", "ca", "updated_at"}
    /\ g = Renamed(b)

\* C21: after every sequence of create, list, update and delete calls sent with
\* the same arguments to the good and to the bad server, the two stores hold
\* the same ids, each todo of the one is the todo of the other under the
\* renaming title/t, description/de, priority/pr, completed/co, created_at/ca,
\* the counters agree, and the latest call succeeded or failed on both alike,
\* with the same error, the same count and total, and the same todos returned.
C21_ServersEquivalent ==
    /\ DOMAIN todos = DOMAIN peer.todos
    /\ \A i \in DOMAIN todos : SameTodo(todos[i], peer.todos[i])
    /\ next_id = peer.next_id
    /\ DOMAIN tool_return = DOMAIN peer.value
    /\ "success" \in DOMAIN tool_return => tool_return.success = peer.value.success
    /\ "error" \in DOMAIN tool_return => tool_return.error = peer.value.error
    /\ "todo" \in DOMAIN tool_return => SameTodo(tool_return.todo, peer.value.todo)
    /\ "deleted_todo" \in DOMAIN tool_return =>
          SameTodo(tool_return.deleted_todo, peer.value.deleted_todo)
    /\ "count" \in DOMAIN tool_return =>
          /\ tool_return.count = peer.value.count
          /\ tool_return.total = peer.value.total
          /\ Len(tool_return.todos) = Len(peer.value.todos)
          /\ \A i \in DOMAIN tool_return.todos :
                SameTodo(tool_return.todos[i], peer.value.todos[i])

C21_Witness ==
    /\ tool_called.name = "list_todos"
    /\ tool_called.status = "completed"
    /\ tool_return.count = 1
    /\ tool_return.total = 1
    /\ peer.value.todos[1].co
    /\ peer.value.todos[1].t = "buy oat milk"
    /\ "updated_at" \in DOMAIN peer.value.todos[1]
    /\ deleted # {}

\* C22: the descriptors cached at connect stay as they are through every
\* request, model call and tool call of the session, and every model call of
\* the session is given the same tool definitions: the ones the request in
\* progress holds are the ones every earlier model call was given.
C22_SameToolsEveryCall ==
    [][ /\ session = "open" => available_tools' = available_tools
        /\ Cardinality(offered') <= 1
        /\ pc' \in {"llm", "tools"} => \A given \in offered' : given = tools' ]_vars

C22_Witness ==
    /\ earlier
    /\ pc = "tools"
    /\ llm_calls >= 2
    /\ invoked # <<>>
    /\ offered = {tools}
    /\ Len(tools) = 4
    /\ tools[1].name = "create_todo"

C24_IdsNeverReused ==
    /\ issued # <<>> => issued[1] = 1
    /\ \A i, j \in DOMAIN issued : i < j => issued[i] < issued[j]
    /\ \A i \in DOMAIN todos : todos[i].id = i /\ \E k \in DOMAIN issued : issued[k] = i
    /\ \A i \in deleted : i \notin DOMAIN todos /\ \E k \in DOMAIN issued : issued[k] = i
    /\ next_id = Len(issued) + 1
    /\ tool_called.name \in {"create_todo", "create"} =>
          /\ tool_return.todo.id = issued[Len(issued)]
          /\ tool_return.todo.id \notin deleted

C24_Witness ==
    /\ server = "bad"
    /\ tool_called.name = "create"
    /\ issued = <<1, 2>>
    /\ deleted = {1}
    /\ DOMAIN todos = {2}
    /\ tool_return.todo.id = 2

\* the keys under which the server whose tool function is `name` stores the
\* fields of a todo
KeysOf(name) ==
    IF name = "update_todo"
    THEN [title |-> "title", description |-> "description", priority |-> "priority",
          completed |-> "completed", created_at |-> "created_at"]
    ELSE [title |-> "t", description |-> "de", priority |-> "pr", completed |-> "co",
          created_at |-> "ca"]

\* C25: an update of a todo that is in the store leaves the ids of the store,
\* every other todo and the counter as they were; in the todo itself, a field
\* whose argument was passed has the argument's value, a field whose argument
\* was null has the value it had, id and created_at are as they were, and
\* updated_at is the time of the call; the call returns success with the todo
\* as it is now stored.
C25_UpdateChangesOnlyPassedFields ==
    [][ (/\ tool_called'.name \in {"update_todo", "update"}
         /\ tool_called'.todo_id \in DOMAIN todos) =>
            LET call == tool_called'
                key == KeysOf(call.name)
                before == todos[call.todo_id]
                after == todos'[call.todo_id]
            IN  /\ DOMAIN todos' = DOMAIN todos
                /\ \A other \in DOMAIN todos \ {call.todo_id} : todos'[other] = todos[other]
                /\ next_id' = next_id
                /\ tool_return' = [success |-> TRUE, todo |-> after]
                /\ DOMAIN after = DOMAIN before \cup {"updated_at"}
                /\ after.id = before.id
                /\ after[key.created_at] = before[key.created_at]
                /\ after.updated_at = "2025-01-02T10:30:00"
                /\ \A field \in {"title", "description", "priority", "completed"} :
                      after[key[field]] =
                          IF call[field] = <<>> THEN before[key[field]] ELSE call[field][1]
      ]_vars

C25_Witness ==
    /\ tool_called.name = "update_todo"
    /\ tool_called.todo_id = 1
    /\ tool_called.title = <<"buy oat milk">>
    /\ tool_called.completed = <<>>
    /\ DOMAIN todos = {1, 2}
    /\ todos[1].title = "buy oat milk"
    /\ todos[1].priority = "high"
    /\ todos[1].completed
    /\ todos[1].description = "2 litres"
    /\ todos[1].created_at = "2025-01-01T09:00:00"
    /\ todos[1].updated_at = "2025-01-02T10:30:00"
    /\ "updated_at" \notin DOMAIN todos[2]
    /\ tool_return.todo = todos[1]

\* the todos the server returns now for list with the filter status, as a set
Listed(status) ==
    LET out == IF server = "good"
               THEN good_list_todos(todo_store, status)
               ELSE bad_list(todo_store, status)
    IN  {out.value.todos[i] : i \in DOMAIN out.value.todos}

\* C26: a list call leaves the store and the counter as they were and returns,
\* each once, the stored todos that match the filter: all of them for "all",
\* the completed ones for "completed", the others for "pending"; count is the
\* number of todos returned and total the number of todos stored.  On the
\* store of the call the todos listed as completed and those listed as pending
\* are disjoint and together are the todos listed for "all".
C26_ListReturnsMatchingTodos ==
    [][ /\ tool_called'.name \in {"list_todos", "list"} =>
              LET status == tool_called'.status
                  flag == IF tool_called'.name = "list_todos" THEN "completed" ELSE "co"
                  returned == tool_return'.todos
                  matching == {i \in DOMAIN todos :
                                  \/ status = "all"
                                  \/ status = "completed" /\ todos[i][flag]
                                  \/ status = "pending" /\ ~todos[i][flag]}
              IN  /\ todos' = todos
                  /\ next_id' = next_id
                  /\ DOMAIN tool_return' = {"todos", "count", "total"}
                  /\ {returned[k] : k \in DOMAIN returned} = {todos[i] : i \in matching}
                  /\ Len(returned) = Cardinality(matching)
                  /\ tool_return'.count = Len(returned)
                  /\ tool_return'.total = Cardinality(DOMAIN todos)
        /\ tool_called'.name \in {"list_todos", "list"} =>
              /\ Listed("completed") \cap Listed("pending") = {}
              /\ Listed("completed") \cup Listed("pending") = Listed("all")
              /\ Listed("all") = {todos[i] : i \in DOMAIN todos}
      ]_vars

C26_Witness ==
    /\ server = "bad"
    /\ tool_called = [name |-> "list", status |-> "pending"]
    /\ tool_return.count = 1
    /\ tool_return.total = 2
    /\ tool_return.todos[1] = todos[2]
    /\ todos[1].co
    /\ ~todos[2].co

\* C27: a delete of a todo that is in the store takes that todo out of the
\* store and nothing else, leaves the counter, and returns success with the
\* todo as deleted_todo.  From then on the id stays out of the store: an
\* update or a delete of an id deleted before returns "Todo <id> not found",
\* and a create returns an id that was never deleted.
C27_DeleteIsPermanent ==
    [][ /\ (/\ tool_called'.name \in {"delete_todo", "delete"}
            /\ tool_called'.todo_id \in DOMAIN todos) =>
               /\ DOMAIN todos' = DOMAIN todos \ {tool_called'.todo_id}
               /\ \A other \in DOMAIN todos' : todos'[other] = todos[other]
               /\ next_id' = next_id
               /\ tool_return' = [success |-> TRUE,
                                  deleted_todo |-> todos[tool_called'.todo_id]]
               /\ tool_called'.todo_id \in deleted'
        /\ \A gone \in deleted : gone \notin DOMAIN todos'
        /\ (/\ tool_called'.name \in {"update_todo", "update", "delete_todo", "delete"}
            /\ tool_called'.todo_id \in deleted) =>
               tool_return' = [success |-> FALSE,
                               error |-> "Todo " \o IdText(tool_called'.todo_id) \o " not found"]
        /\ tool_called'.name \in {"create_todo", "create"} =>
               tool_return'.todo.id \notin deleted
      ]_vars

C27_Witness ==
    /\ server = "good"
    /\ tool_called.name = "update_todo"
    /\ tool_called.todo_id = 1
    /\ tool_called.completed = <<TRUE>>
    /\ deleted = {1}
    /\ issued = <<1, 2>>
    /\ DOMAIN todos = {2}
    /\ tool_return = [success |-> FALSE, error |-> "Todo 1 not found"]
====
